---- MODULE Spec2Model ----
(***************************************************************************)
(* State-machine model of src/src/types.rs (azul): Game, Bag, Factory,     *)
(* FloorLine and Player, with one action per function of the file.         *)
(*                                                                         *)
(* A Vec<T> is a sequence (index 1 is the front, the last index is the     *)
(* end that push/pop work on).  A Result is a record whose field ok tells  *)
(* Ok from Err.  An index outside an array is a panic.                     *)
(*                                                                         *)
(* The file is read as written:                                            *)
(*  - the cost tables are declared u32 but hold negative literals; the     *)
(*    values are taken as the signed integers that are written;            *)
(*  - ensure!/context()? return Err from the enclosing function;           *)
(*  - Factory::fill has no `?` on bag.take(4): it collects what the Result *)
(*    yields (the tiles of an Ok, nothing of an Err), assigns it and       *)
(*    returns Ok(());                                                      *)
(*  - FACTORY_COUNT[players] is indexed by the player count.               *)
(* Bag::new, Factory::new and the Default values of Wall, PatternLines and *)
(* FloorLine are called but not defined in the file; they are modelled     *)
(* from the specification (full inventory, empty containers).              *)
(***************************************************************************)
EXTENDS Integers, Sequences, FiniteSets, TLC

VARIABLES created, bag, players, factories, center, ret

vars == <<created, bag, players, factories, center, ret>>

(***************************************************************************)
(* Bounds of the model                                                     *)
(***************************************************************************)
\* Game::new is called with every player count in 0..MaxPlayersArg
MaxPlayersArg == 5
\* FloorLine::add is called with the first NumAddTiles tiles of AllTiles
NumAddTiles == 2
\* FloorLine::add and FloorLine::points are called on the floor line of the
\* FloorPlayer-th player of the game (the floor lines are independent objects)
FloorPlayer == 1

(***************************************************************************)
(* Types                                                                   *)
(***************************************************************************)
\* enum PlayerColor, in declaration (= iteration) order
PlayerColor == <<"White", "Black", "Gray", "Brown">>

\* enum Tile, in declaration order
AllTiles == <<"Blue", "Yellow", "Red", "Black", "Teal", "FirstPlayer">>

Tile == {AllTiles[i] : i \in 1..Len(AllTiles)}

\* the five playable colors
ColorTiles == Tile \ {"FirstPlayer"}

\* number of tiles of each color in the inventory
TilesPerColor == 20

TotalTiles == TilesPerColor * Cardinality(ColorTiles)

(***************************************************************************)
(* Sequence helpers                                                        *)
(***************************************************************************)
Min(a, b) == IF a <= b THEN a ELSE b

\* number of elements of s that belong to S
RECURSIVE CountIn(_, _)
CountIn(s, S) ==
  IF s = <<>> THEN 0
  ELSE (IF Head(s) \in S THEN 1 ELSE 0) + CountIn(Tail(s), S)

\* concatenation of a sequence of sequences
RECURSIVE Flatten(_)
Flatten(ss) == IF ss = <<>> THEN <<>> ELSE Head(ss) \o Flatten(Tail(ss))

(***************************************************************************)
(* Constants of the file                                                   *)
(***************************************************************************)
\* const FACTORY_COUNT: [u32; 4]; Rust index i is TLA+ index i+1
FACTORY_COUNT == <<3, 5, 7, 9>>

\* const OVERFLOW_COST: [u32; 7]
OVERFLOW_COST == <<-1, -1, -2, -2, -2, -3, -3>>

\* the scan of OVERFLOW_COST: entry k is the sum of the first k costs
RECURSIVE Scan(_, _)
Scan(costs, acc) ==
  IF costs = <<>> THEN <<>>
  ELSE <<acc + Head(costs)>> \o Scan(Tail(costs), acc + Head(costs))

\* const OVERFLOW_CUMULATIVE_COST: [u32; 7]
OVERFLOW_CUMULATIVE_COST == Scan(OVERFLOW_COST, 0)

(***************************************************************************)
(* Values the file calls but does not define                               *)
(***************************************************************************)
\* n copies of t
RECURSIVE Repeat(_, _)
Repeat(t, n) == IF n = 0 THEN <<>> ELSE <<t>> \o Repeat(t, n - 1)

\* Bag::new(): the full inventory, TilesPerColor tiles of each color
Bag_new ==
  Flatten([i \in 1..(Len(AllTiles) - 1) |-> Repeat(AllTiles[i], TilesPerColor)])

\* Factory::new(): an empty display
Factory_new == <<>>

\* Wall::default(): no cell occupied
Wall_default == {}

\* PatternLines::default(): five empty lines
PatternLines_default == [i \in 1..5 |-> <<>>]

\* FloorLine::default(): no tile
FloorLine_default == <<>>

(***************************************************************************)
(* Bag                                                                     *)
(***************************************************************************)
\* the body of the loop of Bag::take, k iterations left: pops the local
\* vector `tiles` (not the bag) and pushes the tile back
RECURSIVE TakeLoop(_, _)
TakeLoop(tiles, k) ==
  IF k = 0 THEN [ok |-> TRUE, tiles |-> tiles]
  ELSE IF tiles = <<>> THEN [ok |-> FALSE, tiles |-> <<>>]
  ELSE LET tile == tiles[Len(tiles)]
           popped == SubSeq(tiles, 1, Len(tiles) - 1)
       IN TakeLoop(Append(popped, tile), k - 1)

\* a take that stops at the first missing tile instead of failing
Bag_take_lenient(b, n) ==
  [ok |-> TRUE, tiles |-> <<>>, bag |-> b]

\* Bag::take(&mut self, n): the result and the bag afterwards
Bag_take(b, n) ==
  LET r == TakeLoop(<<>>, n)
  IN [ok |-> r.ok, tiles |-> r.tiles, bag |-> b]

(***************************************************************************)
(* Factory                                                                 *)
(***************************************************************************)
\* Factory::fill(&mut self, bag): the factory and the bag afterwards; the
\* old contents are overwritten and the result is always Ok(())
Factory_fill(f, b) ==
  LET r == Bag_take(b, 4)
  IN [ok |-> TRUE,
      takeOk |-> r.ok,
      factory |-> IF r.ok THEN r.tiles ELSE <<>>,
      bag |-> r.bag]

(***************************************************************************)
(* FloorLine                                                               *)
(***************************************************************************)
\* an add that, on a full floor line, drops the oldest tile to make room
\* before it reports the overflow
FloorLine_add_shifting(fl, tile) ==
  IF Len(fl) < Len(OVERFLOW_CUMULATIVE_COST)
  THEN [ok |-> TRUE, floor |-> Append(fl, tile)]
  ELSE [ok |-> FALSE, floor |-> Append(Tail(fl), tile)]

\* an add that inserts the tile at the front of the floor line
FloorLine_add_front(fl, tile) ==
  IF Len(fl) < Len(OVERFLOW_CUMULATIVE_COST)
  THEN [ok |-> TRUE, floor |-> <<tile>> \o fl]
  ELSE [ok |-> FALSE, floor |-> fl]

\* an add without the capacity check
FloorLine_add_unchecked(fl, tile) ==
  [ok |-> TRUE, floor |-> Append(fl, tile)]

\* FloorLine::add(&mut self, tile): the result and the floor line afterwards
FloorLine_add(fl, tile) ==
  IF Len(fl) < Len(OVERFLOW_CUMULATIVE_COST)
  THEN [ok |-> TRUE, floor |-> Append(fl, tile)]
  ELSE [ok |-> FALSE, floor |-> fl]

\* points with the index wrapped around the table instead of clamped
FloorLine_points_wrapped(fl) ==
  OVERFLOW_CUMULATIVE_COST[(Len(fl) % Len(OVERFLOW_CUMULATIVE_COST)) + 1]

\* FloorLine::points(&self)
FloorLine_points(fl) ==
  OVERFLOW_CUMULATIVE_COST[Min(Len(fl), Len(OVERFLOW_CUMULATIVE_COST) - 1) + 1]

(***************************************************************************)
(* Player and Game                                                         *)
(***************************************************************************)
\* Player::new(color)
Player_new(color) ==
  [color |-> color,
   points |-> 5,
   wall |-> Wall_default,
   pattern_lines |-> PatternLines_default,
   floor_line |-> FloorLine_default]

\* the boards handed out with the colors taken from the end of PlayerColor
Game_players_reversed(n) ==
  [i \in 1..n |-> Player_new(PlayerColor[Len(PlayerColor) + 1 - i])]

\* PlayerColor::iter().take(players).map(|color| Player::new(color))
Game_players(n) ==
  [i \in 1..n |-> Player_new(PlayerColor[i])]

\* Game::new(players): "err" when ensure! fails, "panic" when the index into
\* FACTORY_COUNT is outside the array, otherwise "ok" and the game
Game_new(n) ==
  IF ~(n <= 4) THEN [outcome |-> "err"]
  ELSE IF ~(n < Len(FACTORY_COUNT)) THEN [outcome |-> "panic"]
  ELSE [outcome |-> "ok",
        bag |-> Bag_new,
        players |-> Game_players(n),
        factories |-> [i \in 1..FACTORY_COUNT[n + 1] |-> Factory_new],
        center |-> <<>>]

\* Game::deal(&mut self): fill every factory in order, from factory i on
RECURSIVE DealFrom(_, _, _)
DealFrom(fs, b, i) ==
  IF i > Len(fs) THEN [factories |-> fs, bag |-> b]
  ELSE LET r == Factory_fill(fs[i], b)
       IN DealFrom([fs EXCEPT ![i] = r.factory], r.bag, i + 1)

Game_deal(fs, b) == DealFrom(fs, b, 1)

(***************************************************************************)
(* The state machine                                                       *)
(***************************************************************************)
\* the record of the last call: its name, its numeric argument (player
\* count, tile count, factory or player index), its tile argument, its
\* outcome, the tiles it returned and the number it returned
Ret(op, n, tile, outcome, tiles, value) ==
  [op |-> op, n |-> n, tile |-> tile, outcome |-> outcome,
   tiles |-> tiles, value |-> value]

Outcome(ok) == IF ok THEN "ok" ELSE "err"

\* the tile counts Bag::take is called with
TakeRequests == {0, 1, 4, TotalTiles + 1}

\* the tiles FloorLine::add is called with
AddTiles == {AllTiles[i] : i \in 1..NumAddTiles}

Init ==
  /\ created = FALSE
  /\ bag = <<>>
  /\ players = <<>>
  /\ factories = <<>>
  /\ center = <<>>
  /\ ret = Ret("none", 0, "none", "ok", <<>>, 0)

New(n) ==
  /\ ~created
  /\ LET g == Game_new(n)
     IN /\ ret' = Ret("Game::new", n, "none", g.outcome, <<>>, 0)
        /\ IF g.outcome = "ok"
           THEN /\ created' = TRUE
                /\ bag' = g.bag
                /\ players' = g.players
                /\ factories' = g.factories
                /\ center' = g.center
           ELSE UNCHANGED <<created, bag, players, factories, center>>

Deal ==
  /\ created
  /\ LET r == Game_deal(factories, bag)
     IN /\ factories' = r.factories
        /\ bag' = r.bag
        /\ ret' = Ret("Game::deal", 0, "none", "ok", <<>>, 0)
  /\ UNCHANGED <<created, players, center>>

Fill(i) ==
  /\ created
  /\ i \in DOMAIN factories
  /\ LET r == Factory_fill(factories[i], bag)
     IN /\ factories' = [factories EXCEPT ![i] = r.factory]
        /\ bag' = r.bag
        /\ ret' = Ret("Factory::fill", i, "none", Outcome(r.ok), <<>>, 0)
  /\ UNCHANGED <<created, players, center>>

Take(n) ==
  /\ created
  /\ LET r == Bag_take(bag, n)
     IN /\ bag' = r.bag
        /\ ret' = Ret("Bag::take", n, "none", Outcome(r.ok), r.tiles, 0)
  /\ UNCHANGED <<created, players, factories, center>>

Add(i, tile) ==
  /\ created
  /\ i \in DOMAIN players
  /\ LET r == FloorLine_add(players[i].floor_line, tile)
     IN /\ players' = [players EXCEPT ![i].floor_line = r.floor]
        /\ ret' = Ret("FloorLine::add", i, tile, Outcome(r.ok), <<>>, 0)
  /\ UNCHANGED <<created, bag, factories, center>>

Points(i) ==
  /\ created
  /\ i \in DOMAIN players
  /\ ret' = Ret("FloorLine::points", i, "none", "ok", <<>>,
                FloorLine_points(players[i].floor_line))
  /\ UNCHANGED <<created, bag, players, factories, center>>

Next ==
  \/ \E n \in 0..MaxPlayersArg : New(n)
  \/ Deal
  \/ \E i \in DOMAIN factories : Fill(i)
  \/ \E n \in TakeRequests : Take(n)
  \/ \E t \in AddTiles : Add(FloorPlayer, t)
  \/ Points(FloorPlayer)

Spec == Init /\ [][Next]_vars

(***************************************************************************)
(* Tile accounting                                                         *)
(***************************************************************************)
\* the tiles on one board: pattern lines and floor line (a wall cell holds
\* one tile; the wall is counted by its occupied cells)
BoardTiles(p) == Flatten(p.pattern_lines) \o p.floor_line

\* every tile held in a Vec of the game: bag, factories, center, boards
GameTiles ==
  bag \o Flatten(factories) \o center
      \o Flatten([i \in DOMAIN players |-> BoardTiles(players[i])])

\* the occupied wall cells of all boards
RECURSIVE WallCells(_)
WallCells(ps) ==
  IF ps = <<>> THEN 0 ELSE Cardinality(Head(ps).wall) + WallCells(Tail(ps))

\* the floor line the last FloorLine call worked on
RetFloor == players[ret.n].floor_line

(***************************************************************************)
(* Claims                                                                  *)
(***************************************************************************)

\* C1: tile conservation.  In every state of a created game the colored
\* tiles of the bag, the factories, the center and the boards number exactly
\* 100, and there is exactly one first-player marker.  (The file has no lid.)
C1_TileConservation ==
  created =>
    /\ CountIn(GameTiles, ColorTiles) + WallCells(players) = 100
    /\ CountIn(GameTiles, {"FirstPlayer"}) = 1

\* C2: draw takes from the supply.  Whenever Bag::take(n) is called on a
\* bag holding at least n tiles it succeeds, returns exactly n tiles, and the
\* bag afterwards is the old bag minus exactly the returned tiles.
C2_TakeFromSupply ==
  [][(ret'.op = "Bag::take" /\ Len(bag) >= ret'.n) =>
       /\ ret'.outcome = "ok"
       /\ Len(ret'.tiles) = ret'.n
       /\ \A t \in Tile :
            CountIn(bag', {t}) + CountIn(ret'.tiles, {t}) = CountIn(bag, {t})]_vars

C5_Penalty == <<0, -1, -2, -4, -6, -8, -11, -14>>

\* C5: FloorLine::points() of a floor line holding k tiles (0 <= k <= 7) is
\* the sum of the first k entries of (-1,-1,-2,-2,-2,-3,-3), and is <= 0.
C5_PointsTable ==
  ret.op = "FloorLine::points" =>
    /\ Len(RetFloor) \in 0..7
    /\ ret.value = C5_Penalty[Len(RetFloor) + 1]
    /\ ret.value <= 0

\* C6: floor-line monotonicity.  Every FloorLine::add leaves points() less
\* than or equal to what it was, and an add on a floor line that already
\* holds 7 tiles leaves points() unchanged.
C6_PointsMonotone ==
  [][ret'.op = "FloorLine::add" =>
       LET fl == players[ret'.n].floor_line
           fl2 == players'[ret'.n].floor_line
       IN /\ FloorLine_points(fl2) <= FloorLine_points(fl)
          /\ Len(fl) >= 7 => FloorLine_points(fl2) = FloorLine_points(fl)]_vars

\* C6 witness: an 8th tile has been offered to a floor line whose points()
\* is the last entry of the cumulative table
C6_EighthTileOffered ==
  /\ ret.op = "FloorLine::add"
  /\ ret.outcome = "err"
  /\ FloorLine_points(RetFloor) = OVERFLOW_CUMULATIVE_COST[7]

\* C7: Game::new succeeds exactly for the player counts 1..4; for every
\* other count it fails with an error and no game is created.
C7_NewAcceptsOneToFour ==
  ret.op = "Game::new" =>
    /\ ret.outcome = "ok" <=> ret.n \in 1..4
    /\ ret.n \notin 1..4 => (ret.outcome = "err" /\ ~created)

\* the displays C8 states for 1..4 players
C8_Displays == <<3, 5, 7, 9>>

\* C8: a game set up for 1, 2, 3 or 4 players has 3, 5, 7 or 9 factory
\* displays.
C8_FactoryCountTable ==
  (ret.op = "Game::new" /\ ret.n \in 1..4) =>
    /\ created
    /\ Len(factories) = C8_Displays[ret.n]

\* C9: immediately after a successful Game::new every player's score is 0.
C9_InitialScoreZero ==
  (ret.op = "Game::new" /\ ret.outcome = "ok") =>
    \A i \in DOMAIN players : players[i].points = 0

\* C11: immediately after a successful Game::new the center holds exactly
\* the first-player marker and no colored tile.
C11_CenterHoldsMarker ==
  (ret.op = "Game::new" /\ ret.outcome = "ok") =>
    center = <<"FirstPlayer">>

\* C12: no factory ever holds more than 4 tiles, and after Game::deal every
\* factory holds exactly 4 tiles whenever the supply held at least 4 tiles
\* per factory before the call.  (The file has no lid.)
C12_FactoriesFilledToFour ==
  [][/\ \A i \in DOMAIN factories' : Len(factories'[i]) <= 4
     /\ (ret'.op = "Game::deal" /\ Len(bag) >= 4 * Len(factories)) =>
          \A i \in DOMAIN factories' : Len(factories'[i]) = 4]_vars

\* the order of the board colors C13 states
C13_Order == <<"White", "Black", "Gray", "Brown">>

C14_ErrorLeavesState ==
  [][ret'.outcome = "err" =>
       UNCHANGED <<created, bag, players, factories, center>>]_vars

\* C14 witness: a Bag::take has failed in a game in which a board already
\* holds floor tiles
C14_TakeFailedMidGame ==
  /\ ret.op = "Bag::take"
  /\ ret.outcome = "err"
  /\ ret.n <= Len(bag)
  /\ FloorPlayer \in DOMAIN players
  /\ players[FloorPlayer].floor_line # <<>>

\* C15: a floor line is empty when its board is created, and every
\* FloorLine::add, successful or not, leaves it holding the first (up to 7)
\* tiles of its old contents followed by the tile added; so it never holds
\* more than 7 tiles and always holds the first tiles added, in order.
C15_FloorKeepsFirstSeven ==
  [][/\ (ret'.op = "Game::new" /\ ret'.outcome = "ok") =>
          \A i \in DOMAIN players' : players'[i].floor_line = <<>>
     /\ ret'.op = "FloorLine::add" =>
          LET fl == players[ret'.n].floor_line
              fl2 == players'[ret'.n].floor_line
              all == Append(fl, ret'.tile)
          IN /\ Len(fl2) <= 7
             /\ fl2 = SubSeq(all, 1, Min(Len(all), 7))
             /\ \A i \in DOMAIN players' :
                  i # ret'.n => players'[i] = players[i]]_vars

\* C15 witness: a full floor line of mixed tiles has been offered a tile
\* that differs from its last one
C15_FullFloorOfferedOther ==
  /\ ret.op = "FloorLine::add"
  /\ Len(RetFloor) = 7
  /\ RetFloor[1] # RetFloor[7]
  /\ ret.tile # RetFloor[7]

\* C16: no player count that passes the check of Game::new indexes
\* FACTORY_COUNT outside 0..3 (no call ends in a panic), and
\* FloorLine::points indexes the 7-entry cumulative table inside 0..6.
C16_TableIndexInRange ==
  /\ (ret.op = "Game::new" /\ ret.outcome # "err") =>
       (ret.n \in 0..3 /\ ret.outcome = "ok")
  /\ ret.op = "FloorLine::points" =>
       Min(Len(RetFloor), Len(OVERFLOW_CUMULATIVE_COST) - 1) \in 0..6

====
